---- MODULE Spec2Model ----
(***************************************************************************)
(* ResourcesManager: a filename-keyed index over directory trees and zip   *)
(* archives with language / category overlays, and the table of open read  *)
(* streams.  Strings are sequences of one-character strings, so that       *)
(* basename, combine, replaceAll, tolower and the lexicographic string     *)
(* comparisons are computed the way the code computes them.                *)
(***************************************************************************)
EXTENDS Integers, Sequences, FiniteSets, TLC

VARIABLES managers, backend, wrappers, ret

vars == <<managers, backend, wrappers, ret>>

(***************************************************************************)
(* Characters and strings                                                  *)
(***************************************************************************)

\* the characters that occur in the modelled names, with their ASCII codes
Ascii ==
    ("." :> 46) @@ ("/" :> 47) @@ ("D" :> 68) @@ ("H" :> 72) @@ ("R" :> 82) @@ ("T" :> 84) @@
    ("\\" :> 92) @@ ("d" :> 100) @@ ("e" :> 101) @@ ("f" :> 102) @@
    ("g" :> 103) @@ ("h" :> 104) @@ ("p" :> 112) @@ ("q" :> 113) @@
    ("r" :> 114) @@ ("s" :> 115) @@ ("t" :> 116) @@ ("x" :> 120)

Chars == DOMAIN Ascii

\* ::tolower on one character
tolower(c) ==
    IF Ascii[c] >= 65 /\ Ascii[c] <= 90
    THEN IF \E d \in Chars : Ascii[d] = Ascii[c] + 32
         THEN CHOOSE d \in Chars : Ascii[d] = Ascii[c] + 32
         ELSE c
    ELSE c

\* std::transform(key.begin(), key.end(), key.begin(), ::tolower)
ToLowerStr(s) == [i \in 1..Len(s) |-> tolower(s[i])]

\* std::string operator< : lexicographic on character codes
StrLess(a, b) ==
    \E i \in 1..(Len(b)) :
        /\ \A j \in 1..(i - 1) : j <= Len(a) /\ a[j] = b[j]
        /\ \/ i = Len(a) + 1
           \/ i <= Len(a) /\ Ascii[a[i]] < Ascii[b[i]]

\* std::string operator>
StrGreater(a, b) == StrLess(b, a)

\* s.compare(0, p.size(), p) == 0 : s starts with p
HasPrefix(s, p) == Len(p) <= Len(s) /\ SubSeq(s, 1, Len(p)) = p

\* s occurs in t at (1-based) position i
OccursAt(t, s, i) == i >= 1 /\ i + Len(s) - 1 <= Len(t) /\ SubSeq(t, i, i + Len(s) - 1) = s

\* s.find(search, pos) with 1-based positions; 0 stands for npos
StrFind(s, search, pos) ==
    IF \E i \in pos..(Len(s) + 1) : OccursAt(s, search, i)
    THEN CHOOSE i \in pos..(Len(s) + 1) :
            OccursAt(s, search, i) /\ \A j \in pos..(i - 1) : ~OccursAt(s, search, j)
    ELSE 0

RECURSIVE replaceAllFrom(_, _, _, _)
replaceAllFrom(s, search, replace, pos) ==
    LET p == StrFind(s, search, pos) IN
    IF p = 0 \/ Len(search) = 0 THEN s
    ELSE replaceAllFrom(SubSeq(s, 1, p - 1) \o replace \o SubSeq(s, p + Len(search), Len(s)),
                        search, replace, p + Len(replace))

\* replaceAll(s, search, replace)
replaceAll(s, search, replace) == replaceAllFrom(s, search, replace, 1)

\* std::replace(key.begin(), key.end(), from, to)
ReplaceChar(s, from, to) == [i \in 1..Len(s) |-> IF s[i] = from THEN to ELSE s[i]]

IsSep(c) == c = "/" \/ c = "\\"

\* basename(path): what follows the last '/' or '\'
basename(path) ==
    IF \E i \in 1..Len(path) : IsSep(path[i])
    THEN LET pos == CHOOSE i \in 1..Len(path) :
                        IsSep(path[i]) /\ \A j \in (i + 1)..Len(path) : ~IsSep(path[j])
         IN  SubSeq(path, pos + 1, Len(path))
    ELSE path

RECURSIVE combineOut(_)
combineOut(list) ==
    IF list = <<>> THEN <<>>
    ELSE (IF Head(list) # <<>> THEN Head(list) \o <<"/">> ELSE <<>>) \o combineOut(Tail(list))

\* combine({a, b, ...}): the non-empty components joined with '/'
combine(list) ==
    LET outString == combineOut(list) IN
    IF Len(outString) = 0 THEN outString ELSE SubSeq(outString, 1, Len(outString) - 1)

\* the keys of a std::map<std::string, ...> in iteration (ascending) order
RECURSIVE SortedKeys(_)
SortedKeys(S) ==
    IF S = {} THEN <<>>
    ELSE LET m == CHOOSE x \in S : \A y \in S \ {x} : StrLess(x, y)
         IN  <<m>> \o SortedKeys(S \ {m})

(***************************************************************************)
(* The environment: a directory tree, file contents and two zip archives   *)
(***************************************************************************)

DT_DIR == "DT_DIR"
DT_REG == "DT_REG"

RootR == <<"R">>
RootMissing == <<"x">>
RootFolders == {RootR, RootMissing}

\* opendir / readdir: directory path -> its entries in readdir order
FS ==
    (<<"R">> :> << [d_name |-> <<".", "g">>, d_type |-> DT_REG],
                   [d_name |-> <<"t">>,      d_type |-> DT_DIR],
                   [d_name |-> <<"h", "d">>, d_type |-> DT_DIR],
                   [d_name |-> <<"s">>,      d_type |-> DT_REG] >>) @@
    (<<"R", "/", "t">> :> << [d_name |-> <<"D">>,      d_type |-> DT_REG],
                             [d_name |-> <<"f", "r">>, d_type |-> DT_DIR] >>) @@
    (<<"R", "/", "t", "/", "f", "r">> :> << [d_name |-> <<"D">>, d_type |-> DT_REG] >>) @@
    (<<"R", "/", "h", "d">> :> << [d_name |-> <<"s">>, d_type |-> DT_REG] >>)

\* file path -> bytes of the regular file
Disk ==
    (<<"R", "/", ".", "g">> :> <<9>>) @@
    (<<"R", "/", "t", "/", "D">> :> <<1, 1, 1, 1, 1, 1, 1, 1, 1, 1>>) @@
    (<<"R", "/", "t", "/", "f", "r", "/", "D">> :> <<2, 2, 2, 2, 2, 2, 2, 2, 2, 2, 2, 2>>) @@
    (<<"R", "/", "h", "d", "/", "s">> :> <<3, 4, 5>>) @@
    (<<"R", "/", "s">> :> <<5>>)

ArchiveP == <<"p">>
ArchiveQ == <<"q">>
ArchiveMissing == <<"x">>

\* archive path -> its entry list in central-directory order
Archives ==
    (ArchiveP :> << [name |-> <<"h", "d", "/", "s">>, data |-> <<6, 7>>],
                    [name |-> <<"s">>,                data |-> <<8>>] >>) @@
    (ArchiveQ :> << [name |-> <<"h", "d", "/">>,      data |-> <<>>],
                    [name |-> <<"s">>,                data |-> <<8>>],
                    [name |-> <<"h", "d", "/", "s">>, data |-> <<6, 7>>] >>)

(***************************************************************************)
(* FileRecord, ResourcesManagerImpl                                        *)
(***************************************************************************)

RegularFile == "RegularFile"
CompressedFile == "CompressedFile"
StoredFile == "StoredFile"
FileType == {RegularFile, CompressedFile, StoredFile}

\* a FileRecord* : the element idx of the vector stored under key; NULL is nullptr
NULL == [key |-> <<>>, idx |-> 0]

\* *ptr for a FileRecord* into filenameToRecordMap
Deref(M, ptr) == M.filenameToRecordMap[ptr.key][ptr.idx]

\* filenameToRecordMap[key].push_back(fileRecord)
PushBack(map, key, fileRecord) ==
    IF key \in DOMAIN map
    THEN [map EXCEPT ![key] = Append(@, fileRecord)]
    ELSE map @@ (key :> <<fileRecord>>)

\* the empty std::map
EmptyMap == [k \in {} |-> <<>>]

\* map[key] = value for the overlay tables
MapSet(map, key, value) == [k \in DOMAIN map \cup {key} |-> IF k = key THEN value ELSE map[k]]

\* the vector capacities push_back passes through: the capacity doubles when full
Capacities == {1, 2, 4, 8, 16}

\* the push_backs that took the vector of key from its length in map to its length
\* in newMap moved its records to new storage
Relocated(map, newMap, key) ==
    /\ key \in DOMAIN map
    /\ \E n \in Len(map[key])..(Len(newMap[key]) - 1) : n \in Capacities

\* the open streams whose FileRecord* points into storage that indexing newMap
\* released, with those that pointed into released storage before
releasedBy(M, newMap) ==
    M.released \cup
    { e.randomValue : e \in { x \in M.openStreams :
                                Relocated(M.filenameToRecordMap, newMap, x.fileRecord.key) } }

\* ResourcesManager::reset(): everything but the open-stream table is cleared; the
\* records the open streams point to are destroyed with filenameToRecordMap
reset(M) ==
    [M EXCEPT !.released = { e.randomValue : e \in M.openStreams },
              !.enableTrace = FALSE,
              !.rootFoldersList = <<>>,
              !.filenameToRecordMap = EmptyMap,
              !.languageId = <<>>,
              !.relativeFolderToLanguageIdMap = EmptyMap,
              !.relativeFolderToCategoryMap = EmptyMap,
              !.enabledCategories = {},
              !.searchByRelativePaths = FALSE,
              !.searchRootsList = << <<>> >>]

\* ResourcesManager::ResourcesManager(): a fresh pImpl, then reset()
ResourcesManager ==
    reset([enableTrace |-> FALSE,
           rootFoldersList |-> <<>>,
           filenameToRecordMap |-> EmptyMap,
           languageId |-> <<>>,
           relativeFolderToLanguageIdMap |-> EmptyMap,
           relativeFolderToCategoryMap |-> EmptyMap,
           enabledCategories |-> {},
           openStreams |-> {},
           released |-> {},
           searchByRelativePaths |-> FALSE,
           searchRootsList |-> <<>>])

addLanguageFolder(M, languageId, languageFolder) ==
    [M EXCEPT !.relativeFolderToLanguageIdMap = MapSet(@, languageFolder, languageId)]

setCurrentLanguage(M, languageId) == [M EXCEPT !.languageId = languageId]

addCategoryFolder(M, category, categoryFolder) ==
    [M EXCEPT !.relativeFolderToCategoryMap = MapSet(@, categoryFolder, category)]

enableCategory(M, category) == [M EXCEPT !.enabledCategories = @ \cup {category}]

disableCategory(M, category) == [M EXCEPT !.enabledCategories = @ \ {category}]

setSearchByRelativePaths(M, searchByRelativePaths) ==
    [M EXCEPT !.searchByRelativePaths = searchByRelativePaths]

addSearchRoot(M, searchRoot) ==
    LET canonicalSearchRoot == replaceAll(searchRoot, <<"\\", "\\">>, <<"/">>)
    IN  [M EXCEPT !.searchRootsList = Append(@, canonicalSearchRoot)]

\* ResourcesManagerImpl::makeKey
makeKey(M, filename) ==
    LET key0 == IF M.searchByRelativePaths THEN filename ELSE basename(filename)
        key1 == ToLowerStr(key0)
        key2 == replaceAll(key1, <<"\\", "\\">>, <<"/">>)
    IN  ReplaceChar(key2, "\\", "/")

\* getFileSize: stat's st_size, or -1
getFileSize(filePath) == IF filePath \in DOMAIN Disk THEN Len(Disk[filePath]) ELSE -1

\* the FileRecord built for a directory entry that is not a directory
RegularRecord(rootFolder, relativeFolder, d_name, languageId, category) ==
    LET relativePath == combine(<<relativeFolder, d_name>>)
        filePath == combine(<<rootFolder, relativePath>>)
    IN  [filename |-> d_name,
         fileType |-> RegularFile,
         size |-> getFileSize(filePath),
         languageId |-> languageId,
         category |-> category,
         filePath |-> filePath,
         relativePath |-> relativePath,
         zipFilePath |-> <<>>,
         zipFilePos |-> 0]

\* a walk in which a category folder stays part of the key path
newRelativeFolderInMapOpaque(M, relativeFolderInMap, d_name) ==
    combine(<<relativeFolderInMap, d_name>>)

\* the key path below folder d_name: a category folder does not contribute its name
newRelativeFolderInMap(M, relativeFolderInMap, d_name) ==
    IF d_name \in DOMAIN M.relativeFolderToCategoryMap
    THEN relativeFolderInMap
    ELSE combine(<<relativeFolderInMap, d_name>>)

RECURSIVE addFolderRecursive(_, _, _, _, _, _, _)
RECURSIVE readdirLoop(_, _, _, _, _, _, _, _)

\* the while ((ep = readdir(dp))) loop of addFolderRecursive, from entry i on
readdirLoop(map, M, rootFolder, relativeFolder, relativeFolderInMap, languageId, category, i) ==
    LET entries == FS[combine(<<rootFolder, relativeFolder>>)] IN
    IF i > Len(entries) THEN map
    ELSE
      LET ep == entries[i]
          newRelativeFolder == combine(<<relativeFolder, ep.d_name>>)
          newLanguageId ==
              IF newRelativeFolder \in DOMAIN M.relativeFolderToLanguageIdMap
              THEN M.relativeFolderToLanguageIdMap[newRelativeFolder]
              ELSE languageId
          matched == ep.d_name \in DOMAIN M.relativeFolderToCategoryMap
          newCategory == IF matched THEN M.relativeFolderToCategoryMap[ep.d_name] ELSE category
          key == makeKey(M, combine(<<relativeFolderInMap, ep.d_name>>))
          map1 ==
              IF ep.d_name[1] = "." THEN map
              ELSE IF ep.d_type = DT_DIR
                   THEN addFolderRecursive(map, M, rootFolder, newRelativeFolder,
                                           newRelativeFolderInMap(M, relativeFolderInMap,
                                                                  ep.d_name),
                                           newLanguageId, newCategory)
                   ELSE PushBack(map, key,
                                 RegularRecord(rootFolder, relativeFolder, ep.d_name,
                                               languageId, category))
      IN  readdirLoop(map1, M, rootFolder, relativeFolder, relativeFolderInMap,
                      languageId, category, i + 1)

\* ResourcesManagerImpl::addFolderRecursive: the record map after walking the folder
addFolderRecursive(map, M, rootFolder, relativeFolder, relativeFolderInMap, languageId, category) ==
    IF combine(<<rootFolder, relativeFolder>>) \notin DOMAIN FS THEN map
    ELSE readdirLoop(map, M, rootFolder, relativeFolder, relativeFolderInMap,
                     languageId, category, 1)

\* ResourcesManager::addRootFolder
addRootFolder(M, rootFolder) ==
    LET map == addFolderRecursive(M.filenameToRecordMap, M, rootFolder,
                                  <<>>, <<>>, <<>>, <<>>)
    IN  [M EXCEPT !.rootFoldersList = Append(@, rootFolder),
                  !.filenameToRecordMap = map,
                  !.released = releasedBy(M, map)]

(***************************************************************************)
(* Backend resources: the FILE* and unzFile objects open in the process    *)
(***************************************************************************)

\* a long value hi * 2^31 + lo with 0 <= lo < 2^31 (long is 64 bits wide, int 32)
Long(hi, lo) == [hi |-> hi, lo |-> lo]
LongZero == Long(0, 0)

\* a long plus a small int
LongAdd(a, d) ==
    IF a.lo + d < 0 THEN Long(a.hi - 1, ((a.lo + d) + 2147483647) + 1)
    ELSE Long(a.hi, a.lo + d)

\* the sum of two longs
LongPlus(a, b) ==
    IF a.lo > 2147483647 - b.lo
    THEN Long(a.hi + b.hi + 1, ((a.lo - 2147483647) - 1) + b.lo)
    ELSE Long(a.hi + b.hi, a.lo + b.lo)

LongNeg(a) == a.hi < 0

\* the conversion of a long to int: the low 32 bits, as a signed value
LongToInt(a) ==
    IF a.hi % 2 = 0 THEN a.lo ELSE (a.lo - 2147483647) - 1

\* an int widened to long
IntToLong(i) == IF i < 0 THEN Long(-1, (i + 2147483647) + 1) ELSE Long(0, i)

NoResource == 0
Uninitialized == -1

\* the address of a newly allocated FILE / unzFile object
FreshResource(B) == CHOOSE r \in 1..(Cardinality(DOMAIN B) + 1) : r \notin DOMAIN B

\* fopen(path, "rb")
FileResource(path) ==
    [kind |-> "FILE", path |-> path, offset |-> LongZero, cur |-> 0, curOpen |-> FALSE, zpos |-> 0]

\* unzOpen(path)
ZipResource(path) ==
    [kind |-> "unzFile", path |-> path, offset |-> LongZero, cur |-> 0, curOpen |-> FALSE, zpos |-> 0]

Open(B, r, res) == B @@ (r :> res)

\* fclose / unzClose
Close(B, r) == [x \in DOMAIN B \ {r} |-> B[x]]

(***************************************************************************)
(* ResourcesManager::addArchive                                            *)
(***************************************************************************)

NoFault == [kind |-> "none", at |-> 0]

\* the primitive failures the archive reader can report while an archive is indexed
ArchiveFaults(archivePath) ==
    {NoFault, [kind |-> "open", at |-> 0], [kind |-> "first", at |-> 0]} \cup
    (IF archivePath \in DOMAIN Archives
     THEN {[kind |-> k, at |-> i] : k \in {"pos", "next"}, i \in 1..Len(Archives[archivePath])}
     ELSE {})

\* the loop over relativeFolderToLanguageIdMap: the last matching folder wins
RECURSIVE archiveLanguage(_, _, _, _, _)
archiveLanguage(M, folders, rootFolder, filePathString, languageId) ==
    IF folders = <<>> THEN languageId
    ELSE LET pathPrefix == combine(<<rootFolder, Head(folders)>>) IN
         archiveLanguage(M, Tail(folders), rootFolder, filePathString,
                         IF HasPrefix(filePathString, pathPrefix)
                         THEN M.relativeFolderToLanguageIdMap[Head(folders)]
                         ELSE languageId)

\* the loop over relativeFolderToCategoryMap: [category, relativePathInMap]
RECURSIVE archiveCategory(_, _, _, _)
archiveCategory(M, folders, filePathString, acc) ==
    IF folders = <<>> THEN acc
    ELSE LET pathComponentToSearch == Head(folders) \o <<"/">> IN
         archiveCategory(M, Tail(folders), filePathString,
                         IF StrFind(filePathString, pathComponentToSearch, 1) # 0
                         THEN [category |-> M.relativeFolderToCategoryMap[Head(folders)],
                               relativePathInMap |->
                                   replaceAll(acc.relativePathInMap, pathComponentToSearch, <<>>)]
                         ELSE acc)

\* folders and entries outside rootFolder are skipped
shouldAddRecord(filePathString, rootFolder) ==
    LET slashEndedRootFolder == rootFolder \o <<"/">> IN
    ~ (\/ filePathString[Len(filePathString)] = "/"
       \/ (rootFolder # <<>> /\ ~HasPrefix(filePathString, slashEndedRootFolder)))

\* the FileRecord and key of archive entry i: [key, fileRecord]
ArchiveRecord(M, archivePath, rootFolder, i) ==
    LET entry == Archives[archivePath][i]
        filePathString == entry.name
        slashEndedRootFolder == rootFolder \o <<"/">>
        rootFolderRelativePath ==
            IF rootFolder # <<>>
            THEN SubSeq(filePathString, Len(slashEndedRootFolder) + 1, Len(filePathString))
            ELSE filePathString
        languageId ==
            archiveLanguage(M, SortedKeys(DOMAIN M.relativeFolderToLanguageIdMap),
                            rootFolder, filePathString, <<>>)
        cat == archiveCategory(M, SortedKeys(DOMAIN M.relativeFolderToCategoryMap),
                               filePathString,
                               [category |-> <<>>, relativePathInMap |-> rootFolderRelativePath])
    IN  [key |-> makeKey(M, cat.relativePathInMap),
         fileRecord |-> [filename |-> filePathString,
                         fileType |-> CompressedFile,
                         size |-> Len(entry.data),
                         languageId |-> languageId,
                         category |-> cat.category,
                         filePath |-> <<>>,
                         relativePath |-> rootFolderRelativePath,
                         zipFilePath |-> archivePath,
                         zipFilePos |-> i]]

\* a record with this raw entry name is already indexed: filenameToRecordMap.count(filePath) != 0
DuplicateName(map, filePath) == filePath \in DOMAIN map

\* the do { } while loop of addArchive from entry i on: [map, threw, at]
RECURSIVE archiveLoop(_, _, _, _, _, _)
archiveLoop(map, M, archivePath, rootFolder, fault, i) ==
    LET entries == Archives[archivePath]
        filePath == entries[i].name
        rec == ArchiveRecord(M, archivePath, rootFolder, i)
        map1 == IF shouldAddRecord(filePath, rootFolder)
                THEN PushBack(map, rec.key, rec.fileRecord)
                ELSE map
    IN
    IF fault = [kind |-> "pos", at |-> i] THEN [map |-> map, threw |-> "pos", at |-> i]
    ELSE IF DuplicateName(map, filePath) THEN [map |-> map, threw |-> "duplicate", at |-> i]
    ELSE IF fault = [kind |-> "next", at |-> i] THEN [map |-> map1, threw |-> "next", at |-> i]
    ELSE IF i = Len(entries) THEN [map |-> map1, threw |-> "none", at |-> i]
    ELSE archiveLoop(map1, M, archivePath, rootFolder, fault, i + 1)

\* ResourcesManager::addArchive: [M, B, threw].  The unzFile is opened into a local
\* that shadows the one the catch block tests, and no path closes it.
addArchive(M, B, archivePath, rootFolder, fault) ==
    IF archivePath \notin DOMAIN Archives \/ fault.kind = "open"
    THEN [M |-> M, B |-> B, threw |-> "open"]
    ELSE
      LET zipFile == FreshResource(B)
          opened == ZipResource(archivePath)
      IN
      IF fault.kind = "first" \/ Len(Archives[archivePath]) = 0
      THEN [M |-> M, B |-> Open(B, zipFile, opened), threw |-> "first"]
      ELSE
        LET r == archiveLoop(M.filenameToRecordMap, M, archivePath, rootFolder, fault, 1)
        IN  [M |-> [M EXCEPT !.filenameToRecordMap = r.map,
                             !.released = releasedBy(M, r.map)],
             B |-> Open(B, zipFile, [opened EXCEPT !.cur = r.at]),
             threw |-> r.threw]

(***************************************************************************)
(* ResourcesManagerImpl::findFileRecord                                    *)
(***************************************************************************)

\* a comparator that orders the lesser tags first
compAscending(rec1, rec2) ==
    \/ StrLess(rec1.category, rec2.category)
    \/ StrLess(rec1.languageId, rec2.languageId)

\* the comparator of candidatesList
comp(rec1, rec2) ==
    \/ StrGreater(rec1.category, rec2.category)
    \/ StrGreater(rec1.languageId, rec2.languageId)

\* a filter that forgets the category test
admissibleLanguageOnly(M, fileRecord) ==
    M.languageId = <<>> \/ fileRecord.languageId = M.languageId

\* the filter of the loop over it->second
admissible(M, fileRecord) ==
    /\ (M.languageId = <<>> \/ fileRecord.languageId = M.languageId)
    /\ (fileRecord.category = <<>> \/ fileRecord.category \in M.enabledCategories)

InsertAt(L, p, x) == SubSeq(L, 1, p) \o <<x>> \o SubSeq(L, p + 1, Len(L))

\* candidatesList.insert(x) on a std::set whose elements are, in order, L.  The
\* comparator is no strict weak ordering, so the place the tree search ends at
\* depends on the shape of the tree: x can end up in any gap whose two
\* neighbours the comparator accepts (x is not before the left one, the left one
\* is before x, x is before the right one), and it is dropped when an element
\* the search meets is equivalent to it.
insert(M, L, x) ==
    LET rx == Deref(M, x)
        r(i) == Deref(M, L[i])
    IN  { InsertAt(L, p, x) : p \in { q \in 0..Len(L) :
                /\ (q = 0 \/ (~comp(rx, r(q)) /\ comp(r(q), rx)))
                /\ (q = Len(L) \/ comp(rx, r(q + 1))) } }
        \cup
        (IF \E i \in 1..Len(L) : ~comp(rx, r(i)) /\ ~comp(r(i), rx) THEN {L} ELSE {})

\* the possible contents of candidatesList after the insertions of one search root
RECURSIVE candidatesList(_, _, _)
candidatesList(M, Ls, cands) ==
    IF cands = <<>> THEN Ls
    ELSE candidatesList(M, UNION { insert(M, L, Head(cands)) : L \in Ls }, Tail(cands))

\* a lookup that does not normalise the name it is given
SearchKeyRaw(M, filename, i) == combine(<<M.searchRootsList[i], filename>>)

\* the key looked up for search root number i
SearchKey(M, filename, i) ==
    makeKey(M, combine(<<M.searchRootsList[i], makeKey(M, filename)>>))

\* the admissible records stored under a key, as pointers, in vector order
RECURSIVE admissibleFrom(_, _, _)
admissibleFrom(M, key, idx) ==
    IF key \notin DOMAIN M.filenameToRecordMap THEN <<>>
    ELSE IF idx > Len(M.filenameToRecordMap[key]) THEN <<>>
    ELSE (IF admissible(M, M.filenameToRecordMap[key][idx])
          THEN << [key |-> key, idx |-> idx] >> ELSE <<>>)
         \o admissibleFrom(M, key, idx + 1)

\* the admissible records of search root number i
RootCandidates(M, filename, i) == admissibleFrom(M, SearchKey(M, filename, i), 1)

\* a loop that does not stop at the first search root with a candidate
winningRootLast(M, filename) ==
    LET hits == { i \in 1..Len(M.searchRootsList) :
                    RootCandidates(M, filename, i) # <<>> }
    IN  IF hits = {} THEN 0 ELSE CHOOSE i \in hits : \A j \in hits : i >= j

\* the search root the loop over searchRootsList breaks at (0: it runs to the end)
winningRoot(M, filename) ==
    LET hits == { i \in 1..Len(M.searchRootsList) :
                    RootCandidates(M, filename, i) # <<>> }
    IN  IF hits = {} THEN 0 ELSE CHOOSE i \in hits : \A j \in hits : i <= j

\* ResourcesManagerImpl::findFileRecord: the records it can return (NULL: nullptr)
findFileRecord(M, filename) ==
    LET w == winningRoot(M, filename) IN
    IF w = 0 THEN {NULL}
    ELSE { Head(L) : L \in candidatesList(M, {<<>>}, RootCandidates(M, filename, w)) }

(***************************************************************************)
(* Streams: getStream, readData(handle), closeFile, seek, tell, ~Stream     *)
(***************************************************************************)

\* getStreamRecord found nothing (nullptr)
NoStream == [fileRecord |-> NULL, randomValue |-> NoResource, file |-> NoResource,
             zipFile |-> NoResource]

\* the primitive failures while a stream is opened
StreamFaults == {"none", "open", "seek", "entry"}

\* an insertion that overwrites the entry of a handle already in the table
openStreamsInsertOverwrite(openStreams, streamRecord) ==
    [openStreams |-> { e \in openStreams : e.randomValue # streamRecord.randomValue }
                        \cup {streamRecord},
     second |-> TRUE]

\* openStreams.insert(std::make_pair(randomValue, streamRecord)): [openStreams, second]
openStreamsInsert(openStreams, streamRecord) ==
    IF \E e \in openStreams : e.randomValue = streamRecord.randomValue
    THEN [openStreams |-> openStreams, second |-> FALSE]
    ELSE [openStreams |-> openStreams \cup {streamRecord}, second |-> TRUE]

\* an erase that clears the table
openStreamsEraseAll(openStreams, randomValue) == {}

\* openStreams.erase(randomValue)
openStreamsErase(openStreams, randomValue) ==
    { e \in openStreams : e.randomValue # randomValue }

\* ResourcesManager::getStream, for the record findFileRecord returned and the value
\* arc4random() drew: [M, B, result, handle]
getStream(M, B, fileRecord, randomValue, fault) ==
    IF fileRecord = NULL THEN [M |-> M, B |-> B, result |-> "nullptr", handle |-> NoResource]
    ELSE
      LET rec == Deref(M, fileRecord)
          r == FreshResource(B)
          streamRecord ==
              [fileRecord |-> fileRecord, randomValue |-> randomValue,
               file |-> IF rec.fileType = RegularFile THEN r ELSE Uninitialized,
               zipFile |-> IF rec.fileType = RegularFile THEN Uninitialized ELSE r]
          insertResult == openStreamsInsert(M.openStreams, streamRecord)
          inserted(B1) ==
              IF ~insertResult.second
              THEN [M |-> M, B |-> B1, result |-> "collision", handle |-> NoResource]
              ELSE [M |-> [M EXCEPT !.openStreams = insertResult.openStreams],
                    B |-> B1, result |-> "stream", handle |-> randomValue]
      IN
      IF rec.fileType = RegularFile
      THEN IF rec.filePath \notin DOMAIN Disk \/ fault = "open"
           THEN [M |-> M, B |-> B, result |-> "nullptr", handle |-> NoResource]
           ELSE inserted(Open(B, r, FileResource(rec.filePath)))
      ELSE IF rec.zipFilePath \notin DOMAIN Archives \/ fault = "open"
           THEN [M |-> M, B |-> B, result |-> "threw", handle |-> NoResource]
           ELSE IF fault = "seek"
           THEN [M |-> M, B |-> Open(B, r, ZipResource(rec.zipFilePath)),
                 result |-> "threw", handle |-> NoResource]
           ELSE IF fault = "entry"
           THEN [M |-> M,
                 B |-> Open(B, r, [ZipResource(rec.zipFilePath) EXCEPT !.cur = rec.zipFilePos]),
                 result |-> "threw", handle |-> NoResource]
           ELSE inserted(Open(B, r, [ZipResource(rec.zipFilePath) EXCEPT
                                        !.cur = rec.zipFilePos, !.curOpen = TRUE]))

\* a lookup that falls back to some open stream when the handle is not found
getStreamRecordAny(M, handle) ==
    IF \E e \in M.openStreams : e.randomValue = handle
    THEN CHOOSE e \in M.openStreams : e.randomValue = handle
    ELSE IF M.openStreams # {} THEN CHOOSE e \in M.openStreams : TRUE
    ELSE [fileRecord |-> NULL, randomValue |-> NoResource, file |-> NoResource,
          zipFile |-> NoResource]

\* ResourcesManagerImpl::getStreamRecord
getStreamRecord(M, handle) ==
    IF \E e \in M.openStreams : e.randomValue = handle
    THEN CHOOSE e \in M.openStreams : e.randomValue = handle
    ELSE NoStream

Min(a, b) == IF a < b THEN a ELSE b

\* what is left of data from the (0-based) position pos, at most size bytes
ReadBytes(data, pos, size) ==
    IF pos >= Len(data) THEN <<>> ELSE SubSeq(data, pos + 1, pos + Min(size, Len(data) - pos))

\* ResourcesManager::readData(int handle, ...): [B, ret, bytes]
readData(M, B, handle, size) ==
    LET streamRecord == getStreamRecord(M, handle) IN
    IF streamRecord = NoStream THEN [B |-> B, ret |-> 0, bytes |-> <<>>]
    ELSE IF Deref(M, streamRecord.fileRecord).fileType = RegularFile
    THEN LET f == B[streamRecord.file]
             got == IF f.offset.hi = 0 THEN ReadBytes(Disk[f.path], f.offset.lo, size) ELSE <<>>
         IN  [B |-> [B EXCEPT ![streamRecord.file].offset = LongAdd(@, Len(got))],
              ret |-> Len(got), bytes |-> got]
    ELSE LET z == B[streamRecord.zipFile]
             got == ReadBytes(Archives[z.path][z.cur].data, z.zpos, size)
         IN  [B |-> [B EXCEPT ![streamRecord.zipFile].zpos = @ + Len(got)],
              ret |-> Len(got), bytes |-> got]

\* ResourcesManager::closeFile: [M, B, ret]
closeFile(M, B, handle) ==
    LET streamRecord == getStreamRecord(M, handle) IN
    IF streamRecord = NoStream THEN [M |-> M, B |-> B, ret |-> 0]
    ELSE
      LET res == IF Deref(M, streamRecord.fileRecord).fileType = RegularFile
                 THEN streamRecord.file ELSE streamRecord.zipFile
      IN  [M |-> [M EXCEPT !.openStreams = openStreamsErase(@, streamRecord.randomValue),
                           !.released = @ \ {streamRecord.randomValue}],
           B |-> IF res = NoResource THEN B ELSE Close(B, res),
           ret |-> 0]

\* what the switch on streamRecord->fileRecord->fileType can read once the record's
\* storage is released: the value it held, another enumerator, or no enumerator
ReleasedFileTypes == FileType \cup {"none"}

\* readData(handle) when the record's storage is released and the switch reads
\* fileType: [B, ret, bytes, outcome].  A case that uses the member getStream left
\* unset passes an indeterminate pointer to the backend.
readDataReleased(M, B, handle, size, fileType) ==
    LET streamRecord == getStreamRecord(M, handle) IN
    IF fileType = RegularFile /\ streamRecord.file # Uninitialized
    THEN LET f == B[streamRecord.file]
             got == IF f.offset.hi = 0 THEN ReadBytes(Disk[f.path], f.offset.lo, size) ELSE <<>>
         IN  [B |-> [B EXCEPT ![streamRecord.file].offset = LongAdd(@, Len(got))],
              ret |-> Len(got), bytes |-> got, outcome |-> "returned"]
    ELSE IF fileType \in {CompressedFile, StoredFile} /\ streamRecord.zipFile # Uninitialized
    THEN LET z == B[streamRecord.zipFile]
             got == ReadBytes(Archives[z.path][z.cur].data, z.zpos, size)
         IN  [B |-> [B EXCEPT ![streamRecord.zipFile].zpos = @ + Len(got)],
              ret |-> Len(got), bytes |-> got, outcome |-> "returned"]
    ELSE IF fileType = "none"
    THEN [B |-> B, ret |-> 0, bytes |-> <<>>, outcome |-> "returned"]
    ELSE [B |-> B, ret |-> 0, bytes |-> <<>>, outcome |-> "undefined"]

\* closeFile(handle) when the record's storage is released and the switch reads
\* fileType: [M, B, ret, outcome]
closeFileReleased(M, B, handle, fileType) ==
    LET streamRecord == getStreamRecord(M, handle)
        erased == [M EXCEPT !.openStreams = openStreamsErase(@, handle),
                            !.released = @ \ {handle}]
    IN
    IF fileType = RegularFile /\ streamRecord.file # Uninitialized
    THEN [M |-> erased, B |-> Close(B, streamRecord.file), ret |-> 0, outcome |-> "returned"]
    ELSE IF fileType \in {CompressedFile, StoredFile} /\ streamRecord.zipFile # Uninitialized
    THEN [M |-> erased, B |-> Close(B, streamRecord.zipFile), ret |-> 0,
          outcome |-> "returned"]
    ELSE IF fileType = "none"
    THEN [M |-> erased, B |-> B, ret |-> 0, outcome |-> "returned"]
    ELSE [M |-> M, B |-> B, ret |-> 0, outcome |-> "undefined"]

\* fseek(file, offset, whence): [offset, ret]
fseek(f, offset, whence) ==
    LET target == CASE whence = "SEEK_SET" -> offset
                    [] whence = "SEEK_CUR" -> LongPlus(f.offset, offset)
                    [] whence = "SEEK_END" -> LongPlus(IntToLong(Len(Disk[f.path])), offset)
                    [] OTHER -> Long(-1, 0)
    IN  IF LongNeg(target) THEN [offset |-> f.offset, ret |-> -1]
        ELSE [offset |-> target, ret |-> 0]

\* ResourcesManager::seek: [B, ret, threw]
seek(M, B, handle, offset, whence) ==
    LET streamRecord == getStreamRecord(M, handle) IN
    IF streamRecord = NoStream THEN [B |-> B, ret |-> 0, threw |-> FALSE]
    ELSE IF Deref(M, streamRecord.fileRecord).fileType = RegularFile
    THEN LET r == fseek(B[streamRecord.file], offset, whence)
         IN  [B |-> [B EXCEPT ![streamRecord.file].offset = r.offset],
              ret |-> r.ret, threw |-> FALSE]
    ELSE [B |-> B, ret |-> 0, threw |-> TRUE]

\* int ret = ftell(file): the long the call returns
tellRegular(f) == IntToLong(LongToInt(f.offset))

\* ResourcesManager::tell: [ret, threw]
tell(M, B, handle) ==
    LET streamRecord == getStreamRecord(M, handle) IN
    IF streamRecord = NoStream THEN [ret |-> LongZero, threw |-> FALSE]
    ELSE IF Deref(M, streamRecord.fileRecord).fileType = RegularFile
    THEN [ret |-> tellRegular(B[streamRecord.file]), threw |-> FALSE]
    ELSE [ret |-> LongZero, threw |-> TRUE]

(***************************************************************************)
(* readData(filename, buffer, size)                                        *)
(***************************************************************************)

\* the primitive failures while a file is read by name
ReadFaults == {"none", "open", "seek", "entry", "read"}

\* ResourcesManagerImpl::readDataFromRegularFile: [B, ret, threw, bytes].  The FILE
\* is opened and closed within the call.
readDataFromRegularFile(B, filePath, size, fault) ==
    IF filePath \notin DOMAIN Disk \/ fault = "open"
    THEN [B |-> B, ret |-> 0, threw |-> FALSE, bytes |-> <<>>]
    ELSE LET got == IF fault = "read" THEN <<>> ELSE ReadBytes(Disk[filePath], 0, size)
         IN  [B |-> B, ret |-> Len(got), threw |-> FALSE, bytes |-> got]

\* ResourcesManagerImpl::readDataFromCompressedFile: [B, ret, threw, bytes].  The
\* unzFile is opened into a local that shadows the one the catch block tests, so
\* only the path without failure closes it.
readDataFromCompressedFile(B, fileRecord, size, fault) ==
    LET zipFile == FreshResource(B)
        opened == ZipResource(fileRecord.zipFilePath)
        thrown(B1) == [B |-> B1, ret |-> 0, threw |-> TRUE, bytes |-> <<>>]
    IN
    IF fileRecord.zipFilePath \notin DOMAIN Archives \/ fault = "open" THEN thrown(B)
    ELSE IF fault = "seek" THEN thrown(Open(B, zipFile, opened))
    ELSE IF fault = "entry"
    THEN thrown(Open(B, zipFile, [opened EXCEPT !.cur = fileRecord.zipFilePos]))
    ELSE IF fault = "read"
    THEN thrown(Open(B, zipFile, [opened EXCEPT !.cur = fileRecord.zipFilePos,
                                                   !.curOpen = TRUE]))
    ELSE LET got == ReadBytes(Archives[fileRecord.zipFilePath][fileRecord.zipFilePos].data,
                              0, size)
         IN  [B |-> B, ret |-> Len(got), threw |-> FALSE, bytes |-> got]

\* ResourcesManagerImpl::readData(const FileRecord&, void*, int)
readDataRecord(B, fileRecord, size, fault) ==
    IF fileRecord.fileType = RegularFile
    THEN readDataFromRegularFile(B, fileRecord.filePath, size, fault)
    ELSE IF fileRecord.fileType = CompressedFile
    THEN readDataFromCompressedFile(B, fileRecord, size, fault)
    ELSE [B |-> B, ret |-> 0, threw |-> FALSE, bytes |-> <<>>]

\* ResourcesManager::readData(const std::string& filename, void*, int), for the
\* record findFileRecord returned
readDataByName(M, B, fileRecord, size, fault) ==
    IF fileRecord = NULL THEN [B |-> B, ret |-> 0, threw |-> FALSE, bytes |-> <<>>]
    ELSE readDataRecord(B, Deref(M, fileRecord), size, fault)

(***************************************************************************)
(* Bounds and input sets                                                   *)
(***************************************************************************)

MaxRootFolders == 1
MaxArchives == 1
MaxResources == 3
MaxSearchRoots == 1
MaxWrappers == 2
NumRandomValues == 2
MaxOffsetHi == 1
MaxOffsetLo == 10

Shared == "shared"
Other == "other"
Managers == {Shared, Other}

LangFr == <<"f", "r">>
CatHD == <<"H", "D">>
FolderFr == <<"t", "/", "f", "r">>
FolderHd == <<"h", "d">>
FolderT == <<"t">>

Languages == {LangFr}
LanguageFolders == {FolderFr}
Categories == {CatHD}
CategoryFolders == {FolderHd}
\* folder names registered as category folders when the walk of a tree is examined
WalkCategoryFolders == {FolderHd, FolderT, <<"f", "r">>}
SearchRoots == {FolderHd}
ArchiveRoots == {<<>>, FolderHd}
ArchivePaths == {ArchiveP, ArchiveQ, ArchiveMissing}

\* the names looked up
Filenames ==
    { <<"D">>, <<"d">>, <<"s">>, <<"T", "/", "d">>, <<"t", "\\", "f", "r", "\\", "d">>,
      <<"h", "d", "/", "s">>, <<"x">> }

\* the values arc4random() can draw
RandomValues == 1..NumRandomValues

\* the names streams are opened on
StreamNames == { <<"s">>, <<"D">>, <<"x">> }

ReadSizes == {8}

LongMinusOne == Long(-1, 2147483647)
LongTwoTo31 == Long(1, 0)

\* the (offset, whence) pairs passed to seek
SeekInputs ==
    { <<LongTwoTo31, "SEEK_SET">>, <<LongMinusOne, "SEEK_SET">>, <<LongMinusOne, "SEEK_END">>,
      <<LongZero, "SEEK_CUR">> }

(***************************************************************************)
(* Actions: one per public operation                                       *)
(***************************************************************************)

Void == [op |-> "void"]

Reset(m) ==
    /\ managers' = [managers EXCEPT ![m] = reset(@)]
    /\ ret' = Void
    /\ UNCHANGED <<backend, wrappers>>

AddRootFolder(m, rootFolder) ==
    /\ Len(managers[m].rootFoldersList) < MaxRootFolders
    /\ managers' = [managers EXCEPT ![m] = addRootFolder(@, rootFolder)]
    /\ ret' = Void
    /\ UNCHANGED <<backend, wrappers>>

AddLanguageFolder(m, languageId, languageFolder) ==
    /\ managers' = [managers EXCEPT ![m] = addLanguageFolder(@, languageId, languageFolder)]
    /\ ret' = Void
    /\ UNCHANGED <<backend, wrappers>>

SetCurrentLanguage(m, languageId) ==
    /\ managers' = [managers EXCEPT ![m] = setCurrentLanguage(@, languageId)]
    /\ ret' = Void
    /\ UNCHANGED <<backend, wrappers>>

AddCategoryFolder(m, category, categoryFolder) ==
    /\ managers' = [managers EXCEPT ![m] = addCategoryFolder(@, category, categoryFolder)]
    /\ ret' = Void
    /\ UNCHANGED <<backend, wrappers>>

EnableCategory(m, category) ==
    /\ managers' = [managers EXCEPT ![m] = enableCategory(@, category)]
    /\ ret' = Void
    /\ UNCHANGED <<backend, wrappers>>

DisableCategory(m, category) ==
    /\ managers' = [managers EXCEPT ![m] = disableCategory(@, category)]
    /\ ret' = Void
    /\ UNCHANGED <<backend, wrappers>>

SetSearchByRelativePaths(m, b) ==
    /\ managers' = [managers EXCEPT ![m] = setSearchByRelativePaths(@, b)]
    /\ ret' = Void
    /\ UNCHANGED <<backend, wrappers>>

AddSearchRoot(m, searchRoot) ==
    /\ Len(managers[m].searchRootsList) <= MaxSearchRoots
    /\ managers' = [managers EXCEPT ![m] = addSearchRoot(@, searchRoot)]
    /\ ret' = Void
    /\ UNCHANGED <<backend, wrappers>>

AddArchive(m, archivePath, rootFolder, fault) ==
    /\ Cardinality(DOMAIN backend) < MaxArchives
    /\ LET r == addArchive(managers[m], backend, archivePath, rootFolder, fault) IN
         /\ managers' = [managers EXCEPT ![m] = r.M]
         /\ backend' = r.B
         /\ ret' = [op |-> "addArchive", archivePath |-> archivePath,
                    rootFolder |-> rootFolder, fault |-> fault, threw |-> r.threw]
    /\ UNCHANGED wrappers

\* findFileRecord, as exists / getSize observe it
FindFileRecord(m, filename) ==
    /\ \E fileRecord \in findFileRecord(managers[m], filename) :
          ret' = [op |-> "findFileRecord", filename |-> filename, fileRecord |-> fileRecord]
    /\ UNCHANGED <<managers, backend, wrappers>>

\* readData(filename, buffer, size)
ReadDataByName(m, filename, size, fault) ==
    /\ Cardinality(DOMAIN backend) < MaxResources
    /\ \E fileRecord \in findFileRecord(managers[m], filename) :
         LET r == readDataByName(managers[m], backend, fileRecord, size, fault) IN
           /\ backend' = r.B
           /\ ret' = [op |-> "readDataByName", filename |-> filename,
                      fileRecord |-> fileRecord, size |-> size, fault |-> fault,
                      ret |-> r.ret, threw |-> r.threw, bytes |-> r.bytes]
    /\ UNCHANGED <<managers, wrappers>>

\* the number of live Stream wrappers
RECURSIVE SumOver(_, _)
SumOver(f, S) ==
    IF S = {} THEN 0
    ELSE LET x == CHOOSE y \in S : TRUE IN f[x] + SumOver(f, S \ {x})

LiveWrappers == SumOver(wrappers, DOMAIN wrappers)

\* getStream(filename); the Stream returned is a new wrapper holding the handle
GetStream(m, filename, randomValue, fault) ==
    /\ Cardinality(DOMAIN backend) < MaxResources
    /\ LiveWrappers < MaxWrappers
    /\ \E fileRecord \in findFileRecord(managers[m], filename) :
         LET r == getStream(managers[m], backend, fileRecord, randomValue, fault)
         IN  /\ managers' = [managers EXCEPT ![m] = r.M]
             /\ backend' = r.B
             /\ wrappers' = IF r.result = "stream"
                            THEN [wrappers EXCEPT ![<<m, r.handle>>] = @ + 1]
                            ELSE wrappers
             /\ ret' = [op |-> "getStream", manager |-> m, result |-> r.result,
                        handle |-> randomValue]

\* readData(handle, buffer, size)
ReadData(m, handle, size) ==
    /\ handle \notin managers[m].released
    /\ LET r == readData(managers[m], backend, handle, size) IN
         /\ backend' = r.B
         /\ ret' = [op |-> "readData", manager |-> m, handle |-> handle, size |-> size,
                    ret |-> r.ret, bytes |-> r.bytes]
    /\ UNCHANGED <<managers, wrappers>>

\* closeFile(handle)
CloseFile(m, handle) ==
    /\ handle \notin managers[m].released
    /\ LET r == closeFile(managers[m], backend, handle) IN
         /\ managers' = [managers EXCEPT ![m] = r.M]
         /\ backend' = r.B
         /\ ret' = [op |-> "closeFile", manager |-> m, handle |-> handle, ret |-> r.ret,
                    found |-> getStreamRecord(managers[m], handle) # NoStream]
    /\ UNCHANGED wrappers

\* readData(handle, buffer, size) on a stream whose record's storage is released
ReadDataReleased(m, handle, size, fileType) ==
    /\ handle \in managers[m].released
    /\ LET r == readDataReleased(managers[m], backend, handle, size, fileType) IN
         /\ backend' = r.B
         /\ ret' = [op |-> "readData", manager |-> m, handle |-> handle, size |-> size,
                    ret |-> r.ret, bytes |-> r.bytes, outcome |-> r.outcome]
    /\ UNCHANGED <<managers, wrappers>>

\* closeFile(handle) on a stream whose record's storage is released
CloseFileReleased(m, handle, fileType) ==
    /\ handle \in managers[m].released
    /\ LET r == closeFileReleased(managers[m], backend, handle, fileType) IN
         /\ managers' = [managers EXCEPT ![m] = r.M]
         /\ backend' = r.B
         /\ ret' = [op |-> "closeFile", manager |-> m, handle |-> handle, ret |-> r.ret,
                    found |-> TRUE, outcome |-> r.outcome]
    /\ UNCHANGED wrappers

InBounds(B) ==
    \A r \in DOMAIN B : B[r].offset.hi <= MaxOffsetHi /\ B[r].offset.lo <= MaxOffsetLo

\* seek(handle, offset, whence)
Seek(m, handle, offset, whence) ==
    /\ LET r == seek(managers[m], backend, handle, offset, whence) IN
         /\ InBounds(r.B)
         /\ backend' = r.B
         /\ ret' = [op |-> "seek", manager |-> m, handle |-> handle, offset |-> offset,
                    whence |-> whence, ret |-> r.ret, threw |-> r.threw]
    /\ UNCHANGED <<managers, wrappers>>

\* tell(handle)
Tell(m, handle) ==
    /\ LET r == tell(managers[m], backend, handle) IN
         ret' = [op |-> "tell", manager |-> m, handle |-> handle,
                 ret |-> r.ret, threw |-> r.threw]
    /\ UNCHANGED <<managers, backend, wrappers>>

\* Stream::~Stream() of a wrapper that manager m returned for handle:
\* ResourcesManager::sharedManager()->closeFile(pImpl->handle)
DestroyStream(m, handle) ==
    /\ wrappers[<<m, handle>>] > 0
    /\ LET r == closeFile(managers[Shared], backend, handle) IN
         /\ managers' = [managers EXCEPT ![Shared] = r.M]
         /\ backend' = r.B
         /\ ret' = [op |-> "~Stream", manager |-> m, handle |-> handle, ret |-> r.ret]
    /\ wrappers' = [wrappers EXCEPT ![<<m, handle>>] = @ - 1]

\* live Stream wrappers, counted by the manager that returned them and their handle
NoWrappers == [w \in Managers \X RandomValues |-> 0]
NoBackend == [r \in {} |-> 0]

\* the state after construction of the two manager objects
Init ==
    /\ managers = [m \in Managers |-> ResourcesManager]
    /\ backend = NoBackend
    /\ wrappers = NoWrappers
    /\ ret = Void

\* configuration, indexing and resolution on one manager, the archive reader sound
Next ==
    \/ Reset(Shared)
    \/ \E rootFolder \in RootFolders : AddRootFolder(Shared, rootFolder)
    \/ \E l \in Languages, f \in LanguageFolders : AddLanguageFolder(Shared, l, f)
    \/ \E l \in Languages \cup {<<>>} : SetCurrentLanguage(Shared, l)
    \/ \E c \in Categories, f \in CategoryFolders : AddCategoryFolder(Shared, c, f)
    \/ \E c \in Categories : EnableCategory(Shared, c)
    \/ \E c \in Categories : DisableCategory(Shared, c)
    \/ \E b \in BOOLEAN : SetSearchByRelativePaths(Shared, b)
    \/ \E r \in SearchRoots : AddSearchRoot(Shared, r)
    \/ \E a \in ArchivePaths, r \in ArchiveRoots : AddArchive(Shared, a, r, NoFault)
    \/ \E f \in Filenames : FindFileRecord(Shared, f)

Spec == Init /\ [][Next]_vars

\* the shared manager after addCategoryFolder("HD", "hd"), addArchive(q), addRootFolder(R)
IndexedShared ==
    LET a == addArchive(addCategoryFolder(ResourcesManager, CatHD, FolderHd),
                        NoBackend, ArchiveQ, <<>>, NoFault)
    IN  [M |-> addRootFolder(a.M, RootR), B |-> a.B]

\* a second manager after addRootFolder(R)
IndexedOther == addRootFolder(ResourcesManager, RootR)

\* the shared manager set up, before any stream is opened
InitStream ==
    /\ managers = (Shared :> IndexedShared.M) @@ (Other :> ResourcesManager)
    /\ backend = IndexedShared.B
    /\ wrappers = NoWrappers
    /\ ret = Void

\* the stream operations on the shared manager
NextStream ==
    \/ \E f \in StreamNames, v \in RandomValues, fault \in StreamFaults :
          GetStream(Shared, f, v, fault)
    \/ \E h \in RandomValues, n \in ReadSizes : ReadData(Shared, h, n)
    \/ \E h \in RandomValues : CloseFile(Shared, h)
    \/ \E h \in RandomValues, s \in SeekInputs : Seek(Shared, h, s[1], s[2])
    \/ \E h \in RandomValues : Tell(Shared, h)
    \/ \E h \in RandomValues : DestroyStream(Shared, h)

SpecStream == InitStream /\ [][NextStream]_vars

\* both managers set up, before any stream is opened
InitInstances ==
    /\ managers = (Shared :> IndexedShared.M) @@ (Other :> IndexedOther)
    /\ backend = IndexedShared.B
    /\ wrappers = NoWrappers
    /\ ret = Void

\* streams opened, read, closed and their wrappers destroyed on two managers
NextInstances ==
    \/ \E m \in Managers, f \in StreamNames, v \in RandomValues :
          GetStream(m, f, v, "none")
    \/ \E m \in Managers, h \in RandomValues, n \in ReadSizes : ReadData(m, h, n)
    \/ \E m \in Managers, h \in RandomValues : CloseFile(m, h)
    \/ \E m \in Managers, h \in RandomValues : DestroyStream(m, h)

SpecInstances == InitInstances /\ [][NextInstances]_vars

\* the shared manager after addArchive(q): two records under the key "s"
IndexedArchive == addArchive(ResourcesManager, NoBackend, ArchiveQ, <<>>, NoFault)

\* an indexed manager, before any stream is opened
InitLifetime ==
    /\ managers = (Shared :> IndexedArchive.M) @@ (Other :> ResourcesManager)
    /\ backend = IndexedArchive.B
    /\ wrappers = NoWrappers
    /\ ret = Void

\* streams opened, read and closed while the manager is reset and indexes again
NextLifetime ==
    \/ \E f \in StreamNames, v \in RandomValues : GetStream(Shared, f, v, "none")
    \/ Reset(Shared)
    \/ \E rootFolder \in RootFolders : AddRootFolder(Shared, rootFolder)
    \/ \E h \in RandomValues, n \in ReadSizes : ReadData(Shared, h, n)
    \/ \E h \in RandomValues : CloseFile(Shared, h)
    \/ \E h \in RandomValues, n \in ReadSizes, t \in ReleasedFileTypes :
          ReadDataReleased(Shared, h, n, t)
    \/ \E h \in RandomValues, t \in ReleasedFileTypes : CloseFileReleased(Shared, h, t)

SpecLifetime == InitLifetime /\ [][NextLifetime]_vars

\* the directory walk under every choice of overlay tables and of the key flag
NextWalk ==
    \/ Reset(Shared)
    \/ \E c \in Categories, f \in WalkCategoryFolders : AddCategoryFolder(Shared, c, f)
    \/ \E l \in Languages, f \in LanguageFolders : AddLanguageFolder(Shared, l, f)
    \/ \E b \in BOOLEAN : SetSearchByRelativePaths(Shared, b)
    \/ \E rootFolder \in RootFolders : AddRootFolder(Shared, rootFolder)
    \/ \E f \in Filenames : FindFileRecord(Shared, f)

SpecWalk == Init /\ [][NextWalk]_vars

\* indexing with an archive reader and a file system that can fail, and reads by name
NextArchive ==
    \/ \E c \in Categories, f \in CategoryFolders : AddCategoryFolder(Shared, c, f)
    \/ \E c \in Categories : EnableCategory(Shared, c)
    \/ \E rootFolder \in RootFolders : AddRootFolder(Shared, rootFolder)
    \/ \E a \in ArchivePaths, r \in ArchiveRoots :
          \E fault \in ArchiveFaults(a) : AddArchive(Shared, a, r, fault)
    \/ \E f \in StreamNames, n \in ReadSizes, fault \in ReadFaults :
          ReadDataByName(Shared, f, n, fault)

SpecArchive == Init /\ [][NextArchive]_vars

(***************************************************************************)
(* Vocabulary of the properties                                            *)
(***************************************************************************)

SM == managers[Shared]

Found == ret.op = "findFileRecord" /\ ret.fileRecord # NULL
NotFound == ret.op = "findFileRecord" /\ ret.fileRecord = NULL

\* the admissibility rule, as the specification words it
PassesFilter(M, rec) ==
    /\ (M.languageId = <<>> \/ rec.languageId = M.languageId)
    /\ (rec.category = <<>> \/ rec.category \in M.enabledCategories)

RecordsUnder(M, key) ==
    IF key \in DOMAIN M.filenameToRecordMap
    THEN { M.filenameToRecordMap[key][i] : i \in 1..Len(M.filenameToRecordMap[key]) }
    ELSE {}

\* search root number i has a record that passes the filter for the name
RootHasAdmissible(M, filename, i) ==
    \E rec \in RecordsUnder(M, SearchKey(M, filename, i)) : PassesFilter(M, rec)

Generic(rec) == rec.languageId = <<>> /\ rec.category = <<>>

(***************************************************************************)
(* Properties of the resolver and the indexer                              *)
(***************************************************************************)

C2_FirstRootWins ==
    /\ SM.searchRootsList[1] = <<>>
    /\ Found =>
         \E i \in 1..Len(SM.searchRootsList) :
             /\ RootHasAdmissible(SM, ret.filename, i)
             /\ \A j \in 1..(i - 1) : ~RootHasAdmissible(SM, ret.filename, j)
             /\ ret.fileRecord.key = SearchKey(SM, ret.filename, i)

\* a later search root, with another key, had an admissible record too
C2_Witness ==
    /\ Found
    /\ \E j \in 1..Len(SM.searchRootsList) :
          /\ RootHasAdmissible(SM, ret.filename, j)
          /\ SearchKey(SM, ret.filename, j) # ret.fileRecord.key

\* C3: when the key holds a generic record and a record tagged with language L,
\* the name resolves to the generic record while no language is current and to the
\* L-tagged record once L is current.
C3_LanguagePreference ==
    (/\ ret.op = "findFileRecord"
     /\ \E g, t \in RecordsUnder(SM, SearchKey(SM, ret.filename, 1)) :
           /\ Generic(g)
           /\ t.languageId = LangFr /\ t.category = <<>>) =>
        /\ SM.languageId = <<>> => (Found /\ Generic(Deref(SM, ret.fileRecord)))
        /\ SM.languageId = LangFr =>
              (Found /\ Deref(SM, ret.fileRecord).languageId = LangFr)

\* C4: an archive holding c/f and f, c registered as a category folder, is indexed
\* without error in either entry order, both entries under one key; the name then
\* resolves to the entry without category while the category is disabled and to
\* the tagged entry once it is enabled.
C4_ArchiveCategoryEntries ==
    /\ (/\ ret.op = "addArchive"
        /\ ret.archivePath \in {ArchiveP, ArchiveQ}
        /\ ret.rootFolder = <<>>
        /\ SM.rootFoldersList = <<>>
        /\ FolderHd \in DOMAIN SM.relativeFolderToCategoryMap) =>
           /\ ret.threw = "none"
           /\ \E key \in DOMAIN SM.filenameToRecordMap :
                 \E a, b \in RecordsUnder(SM, key) :
                     a.filename = <<"s">> /\ b.filename = <<"h", "d", "/", "s">>
    /\ (/\ ret.op = "findFileRecord"
        /\ SM.languageId = <<>>
        /\ \E a, b \in RecordsUnder(SM, SearchKey(SM, ret.filename, 1)) :
              /\ a.fileType = CompressedFile /\ Generic(a)
              /\ b.fileType = CompressedFile /\ b.category = CatHD) =>
           /\ Found
           /\ CatHD \notin SM.enabledCategories => Deref(SM, ret.fileRecord).category = <<>>
           /\ CatHD \in SM.enabledCategories => Deref(SM, ret.fileRecord).category = CatHD

C15_LanguageFallback ==
    (/\ ret.op = "findFileRecord"
     /\ SM.languageId # <<>>
     /\ \E i \in 1..Len(SM.searchRootsList) :
           LET recs == RecordsUnder(SM, SearchKey(SM, ret.filename, i)) IN
             /\ \A rec \in recs : rec.languageId # SM.languageId
             /\ \E rec \in recs :
                   /\ rec.languageId = <<>>
                   /\ (rec.category = <<>> \/ rec.category \in SM.enabledCategories)) =>
        ret.fileRecord # NULL

\* the components of a path, split at "/"
RECURSIVE Components(_, _)
Components(path, cur) ==
    IF path = <<>> THEN <<cur>>
    ELSE IF Head(path) = "/" THEN <<cur>> \o Components(Tail(path), <<>>)
    ELSE Components(Tail(path), Append(cur, Head(path)))

\* the components joined with "/"
RECURSIVE Joined(_)
Joined(comps) ==
    IF Len(comps) = 1 THEN comps[1] ELSE comps[1] \o <<"/">> \o Joined(Tail(comps))

\* of the record's relative path: the ancestor folders that are not registered as
\* category folders, then the filename, in lower case
KeyWithoutCategoryFolders(M, rec) ==
    LET comps == Components(rec.relativePath, <<>>)
        kept == SelectSeq(SubSeq(comps, 1, Len(comps) - 1),
                          LAMBDA c : c \notin DOMAIN M.relativeFolderToCategoryMap)
    IN  ToLowerStr(Joined(Append(kept, comps[Len(comps)])))

\* C16: with searchByRelativePaths on, addRootFolder stores every regular file under
\* the key made of the lower-cased names of its ancestor folders that are not
\* registered in the category table, followed by the filename.
C16_CategoryFoldersTransparent ==
    [][(/\ Len(SM'.rootFoldersList) > Len(SM.rootFoldersList)
        /\ SM.searchByRelativePaths) =>
          \A key \in DOMAIN SM'.filenameToRecordMap :
              \A i \in 1..Len(SM'.filenameToRecordMap[key]) :
                  (key \notin DOMAIN SM.filenameToRecordMap
                     \/ i > Len(SM.filenameToRecordMap[key])) =>
                      key = KeyWithoutCategoryFolders(SM, SM'.filenameToRecordMap[key][i])]_vars

\* a file two folders deep was stored under a key that keeps one of the folders
\* and leaves the other out
C16_Witness ==
    /\ SM.searchByRelativePaths
    /\ \E key \in DOMAIN SM.filenameToRecordMap :
          \E rec \in RecordsUnder(SM, key) :
              /\ Len(Components(rec.relativePath, <<>>)) = 3
              /\ Len(Components(key, <<>>)) = 2
              /\ key = KeyWithoutCategoryFolders(SM, rec)

(***************************************************************************)
(* Properties of the open-stream table                                     *)
(***************************************************************************)

\* the handles in a manager's open-stream table
Handles(M) == { e.randomValue : e \in M.openStreams }

\* the table entry of a handle
EntryOf(M, handle) == CHOOSE e \in M.openStreams : e.randomValue = handle

\* the backend object a table entry owns
StreamResource(e) == IF e.file # Uninitialized THEN e.file ELSE e.zipFile

\* the stream was opened on a regular file
OnRegularFile(M, e) == Deref(M, e.fileRecord).fileType = RegularFile

Without(B, r) == [x \in DOMAIN B \ {r} |-> B[x]]

\* C6: no two open streams share a handle value; a getStream that draws a handle
\* already in the table ends in a fatal error once it has opened its backend
\* object, and leaves the table and the backend objects of its entries as they were.
C6_HandlesUnique ==
    /\ [](\A m \in Managers : \A a, b \in managers[m].openStreams :
              a.randomValue = b.randomValue => a = b)
    /\ [][(ret'.op = "getStream" /\ ret'.handle \in Handles(managers[ret'.manager])) =>
            /\ managers'[ret'.manager].openStreams = managers[ret'.manager].openStreams
            /\ \A e \in managers[ret'.manager].openStreams :
                  /\ StreamResource(e) \in DOMAIN backend'
                  /\ backend'[StreamResource(e)] = backend[StreamResource(e)]
            /\ ret'.result # "stream"
            /\ backend' # backend => ret'.result \in {"collision", "threw"}]_vars

\* a getStream drew a handle that was in the table
C6_Witness == ret.op = "getStream" /\ ret.result = "collision"

\* C7: closeFile on one of the open handles removes that entry alone and releases
\* its backend object alone; every other entry, backend object and read position
\* stays as it was, and a read returns the bytes at the read position of the
\* stream's own backend object.
C7_CloseLeavesOthers ==
    /\ [][(ret'.op = "closeFile" /\ ret'.handle \in Handles(managers[ret'.manager])) =>
            LET m == ret'.manager
                e == EntryOf(managers[m], ret'.handle)
            IN  /\ managers' = [managers EXCEPT ![m].openStreams = @ \ {e}]
                /\ backend' = Without(backend, StreamResource(e))]_vars
    /\ [][(ret'.op = "readData" /\ ret'.handle \in Handles(managers[ret'.manager])) =>
            LET M == managers[ret'.manager]
                e == EntryOf(M, ret'.handle)
                res == backend[StreamResource(e)]
                data == IF OnRegularFile(M, e) THEN Disk[res.path]
                        ELSE Archives[res.path][res.cur].data
                pos == IF OnRegularFile(M, e) THEN res.offset.lo ELSE res.zpos
                expected == IF OnRegularFile(M, e) /\ res.offset.hi # 0 THEN <<>>
                            ELSE ReadBytes(data, pos, ret'.size)
            IN  /\ ret'.bytes = expected
                /\ ret'.ret = Len(expected)
                /\ \A r \in DOMAIN backend \ {StreamResource(e)} :
                      r \in DOMAIN backend' /\ backend'[r] = backend[r]]_vars

\* one of two open streams was closed
C7_Witness ==
    /\ ret.op = "closeFile"
    /\ ret.found
    /\ managers[ret.manager].openStreams # {}

\* C8: readData on a handle that is not in the table returns 0 and changes nothing,
\* closeFile on it returns 0 and leaves the table unchanged, and a handle is not in
\* the table once closeFile was called on it.
C8_AbsentHandle ==
    /\ [][(ret'.op = "readData" /\ ret'.handle \notin Handles(managers[ret'.manager])) =>
            (ret'.ret = 0 /\ UNCHANGED <<managers, backend, wrappers>>)]_vars
    /\ [][(ret'.op = "closeFile" /\ ret'.handle \notin Handles(managers[ret'.manager])) =>
            (ret'.ret = 0 /\ UNCHANGED <<managers, backend, wrappers>>)]_vars
    /\ [](ret.op = "closeFile" => ret.handle \notin Handles(managers[ret.manager]))

\* a read on the handle of a stream that was opened and then closed
C8_Witness ==
    /\ ret.op = "readData"
    /\ ret.ret = 0
    /\ wrappers[<<ret.manager, ret.handle>>] > 0
    /\ ret.handle \notin Handles(managers[ret.manager])

\* C9: seek and tell on an archive-backed open handle end in a fatal error and leave
\* the stream open; on a handle backed by a regular file a seek to a position that
\* is not negative succeeds and the next tell returns that position.
C9_SeekThenTell ==
    /\ [][(/\ ret'.op \in {"seek", "tell"}
           /\ ret'.handle \in Handles(managers[ret'.manager])
           /\ ~OnRegularFile(managers[ret'.manager],
                             EntryOf(managers[ret'.manager], ret'.handle))) =>
            (ret'.threw /\ managers' = managers)]_vars
    /\ [][(/\ ret'.op = "seek"
           /\ ret'.whence = "SEEK_SET"
           /\ ~LongNeg(ret'.offset)
           /\ ret'.handle \in Handles(managers[ret'.manager])
           /\ OnRegularFile(managers[ret'.manager],
                            EntryOf(managers[ret'.manager], ret'.handle))) =>
            (~ret'.threw /\ ret'.ret = 0)]_vars
    /\ [][(/\ ret.op = "seek" /\ ~ret.threw /\ ret.ret = 0
           /\ ret.whence = "SEEK_SET"
           /\ ret.handle \in Handles(managers[ret.manager])
           /\ ret'.op = "tell" /\ ret'.manager = ret.manager /\ ret'.handle = ret.handle) =>
            (~ret'.threw /\ ret'.ret = ret.offset)]_vars

\* C10: once a Stream wrapper is destroyed its handle is not in the open-stream
\* table of the manager that returned it, and the tables of the other managers
\* are unchanged.
C10_WrapperClosesOwnStream ==
    [][(ret'.op = "~Stream") =>
         /\ ret'.handle \notin Handles(managers'[ret'.manager])
         /\ \A m \in Managers \ {ret'.manager} :
               managers'[m].openStreams = managers[m].openStreams]_vars

(***************************************************************************)
(* Properties of addArchive, of reads by name and of the backend objects   *)
(***************************************************************************)

\* C11: when addArchive ends in an error, the archive handle it opened is closed by
\* the time the error reaches the caller: no backend object is open that was not
\* open before the call.
C11_ArchiveClosedOnError ==
    [][(ret'.op = "addArchive" /\ ret'.threw # "none") => backend' = backend]_vars

\* a raw entry name occurs more than once in the entry list of the archive
RawNameRepeated(archivePath) ==
    \E i, j \in 1..Len(Archives[archivePath]) :
        i # j /\ Archives[archivePath][i].name = Archives[archivePath][j].name

\* C12: with a sound archive reader, addArchive ends in the duplicate-name error
\* exactly when a raw entry name occurs more than once in the archive it indexes;
\* records indexed earlier, or earlier in the same pass under another raw name,
\* never make it end so.
C12_DuplicateOnlyWithinArchive ==
    (ret.op = "addArchive" /\ ret.fault = NoFault /\ ret.archivePath \in DOMAIN Archives) =>
        (ret.threw = "duplicate" <=> RawNameRepeated(ret.archivePath))

\* C13: readData(filename, buffer, size) returns 0 without an error when the name
\* does not resolve and when the backend of the resolved record cannot be opened
\* (file open, archive open, seek to the entry or opening the entry failing).
C13_ReadByNameBenign ==
    (/\ ret.op = "readDataByName"
     /\ \/ ret.fileRecord = NULL
        \/ /\ ret.fileRecord # NULL
           /\ Deref(SM, ret.fileRecord).fileType = RegularFile
           /\ ret.fault = "open"
        \/ /\ ret.fileRecord # NULL
           /\ Deref(SM, ret.fileRecord).fileType = CompressedFile
           /\ ret.fault \in {"open", "seek", "entry"}) =>
        (~ret.threw /\ ret.ret = 0)

\* C17: the number of backend objects open equals the number of entries in the
\* open-stream tables.
C17_ResourcesBalanced ==
    Cardinality(DOMAIN backend) =
        SumOver([m \in Managers |-> Cardinality(managers[m].openStreams)], Managers)

\* C18: every entry of the open-stream table refers to a FileRecord that is still
\* in filenameToRecordMap, in the storage it had when the stream was opened: no
\* reset, addRootFolder or addArchive removed or relocated it.
C18_StreamRecordsPresent ==
    \A e \in SM.openStreams :
        /\ e.randomValue \notin SM.released
        /\ e.fileRecord.key \in DOMAIN SM.filenameToRecordMap
        /\ e.fileRecord.idx <= Len(SM.filenameToRecordMap[e.fileRecord.key])

====
